---- MODULE Spec2Model ----
(***************************************************************************)
(* Model of run.py: the feed-to-EPUB pipeline of El_Pais.                  *)
(*                                                                         *)
(* create_epub is modelled as a sequential state machine whose program     *)
(* counter pc walks through the function: the retried feed fetch, the feed *)
(* parse and sort, the item loop (article extraction with its own retry    *)
(* loop, the date filter, chapter build, image capture, embedding), the    *)
(* finalisation and the archive write, and the caller's scratch sweep.     *)
(* Everything the network, the clock and the libraries decide is a         *)
(* nondeterministic choice made by the step that consults them.            *)
(***************************************************************************)
EXTENDS Integers, Sequences, FiniteSets, TLC

\* ---------------------------------------------------------------- bounds
\* Largest number of <item> entries in the feed document.
MaxItems == 3

\* ------------------------------------------------------ program constants
\* Retry(total=5): the number of RETRIES urllib3 allows after the first try.
RetryTotal == 5
\* An extractor that allows one attempt more than its default says.
max_retries_one_more == 3 + 1

\* download_article_with_retry(url, max_retries=3, ...)
max_retries == 3

\* ------------------------------------------------------------ vocabulary
\* Category texts are strings; a string is modelled as the sequence of its
\* character codes, so Python's string order is the lexicographic order.
Categories == { <<1>>, <<1, 2>>, <<2>> }

\* Scratch file names produced by random.choice (two draws may collide).
FileNames == { "f1", "f2" }

\* Python's None for an image path / an article.
NoPath == "None"
NoArticle == [url |-> 0, publish_date |-> "unset"]

\* article.publish_date after parse: a datetime of today, a datetime of
\* another day, or None when the extractor found no date.
PublishDates == { "today", "other", "None" }

\* One <item> of the feed: link is the item's position in the document (its
\* identity), category the text of its <category> tag; hasTags is FALSE
\* when the item lacks a <link> or <category> tag (find() returns None).
Items(n) ==
    [ i \in 1..n |->
        { [link |-> i, category |-> c, hasTags |-> TRUE] : c \in Categories }
        \cup { [link |-> i, category |-> <<>>, hasTags |-> FALSE] } ]

RECURSIVE SeqsOver(_, _)
\* All sequences s of length n with s[i] \in S[i].
SeqsOver(S, n) ==
    IF n = 0 THEN { <<>> }
    ELSE { Append(s, x) : s \in SeqsOver(S, n - 1), x \in S[n] }

Feeds == UNION { SeqsOver(Items(n), n) : n \in 0..MaxItems }

\* ------------------------------------------------------- pure functions
RECURSIVE StrLess(_, _)
\* Python's a < b on strings.
StrLess(a, b) ==
    IF b = <<>> THEN FALSE
    ELSE IF a = <<>> THEN TRUE
    ELSE IF Head(a) /= Head(b) THEN Head(a) < Head(b)
    ELSE StrLess(Tail(a), Tail(b))

RECURSIVE Reverse(_)
Reverse(s) == IF s = <<>> THEN <<>> ELSE Append(Reverse(Tail(s)), Head(s))

RECURSIVE InsertStable(_, _)
\* Insert x into the ascending list s after every element not greater
\* than it (the stable insertion of list.sort).
InsertStable(s, x) ==
    IF s = <<>> THEN <<x>>
    ELSE IF StrLess(x.category, Head(s).category) THEN <<x>> \o s
    ELSE <<Head(s)>> \o InsertStable(Tail(s), x)

RECURSIVE SortAscStable(_)
\* list.sort(key=lambda x: x[1]): stable, ascending.
SortAscStable(s) ==
    IF s = <<>> THEN <<>>
    ELSE InsertStable(SortAscStable(SubSeq(s, 1, Len(s) - 1)), s[Len(s)])

\* A mis-sort: ascending sort followed by a reversal, which turns the
\* order of equal categories around.
SortArticlesReversedTies(s) == Reverse(SortAscStable(s))

\* articles.sort(key=lambda x: x[1], reverse=True): list.sort reverses the
\* list, sorts it stably ascending and reverses it again, so that equal
\* keys keep their original order.
SortArticles(s) == Reverse(SortAscStable(Reverse(s)))

\* ----------------------------------------------------------------- state
VARIABLES
    feed,          \* the <item> entries of the feed document, in document order
    pc,            \* where the run is
    retriesLeft,   \* Retry.total of the feed request: retries still allowed
    fetchAttempts, \* requests sent for the feed so far
    exc,           \* class of the exception that ended the run, if one did
    articles,      \* the sorted (link, category) list of create_epub
    idx,           \* position of the item loop in articles (1-based)
    attempt,       \* loop variable of download_article_with_retry
    tries,         \* fetch+parse attempts made by the current extractor call
    fails,         \* attempts of the current extractor call that raised
    article,       \* what download_article_with_retry returned
    imgPath,       \* epubtop_image_path
    chapters,      \* the chapters list
    bookItems,     \* book.items, in add_item order
    toc,           \* book.toc
    spine,         \* book.spine
    disk,          \* the *.jpeg files in the working directory
    status,        \* per feed item: how far its processing got
    result,        \* what create_epub gave its caller
    terminal,      \* the terminal state of the run
    written,       \* epub.write_epub was invoked / wrote the output file
    slept,         \* the time.sleep calls of the current extractor call, in order
    warned,        \* logger.warning records of the current extractor call
    errored,       \* logger.error records of the current extractor call
    errorsLogged,  \* logger.error records of the run so far
    imageCalls,    \* download_image calls of the run so far
    step,          \* the step of lines 117-132 taken in isolation, if one is
    article_html,  \* article.article_html
    text,          \* article.text
    article_content, \* article_content of lines 121/124
    titles,        \* article.title of the articles that pass line 127
    file_names     \* file_name of the chapters appended so far

vars ==
    << feed, pc, retriesLeft, fetchAttempts, exc, articles, idx, attempt, tries,
       fails, article, imgPath, chapters, bookItems, toc, spine, disk, status,
       result, terminal, written, slept, warned, errored, errorsLogged,
       imageCalls, step, article_html, text, article_content, titles,
       file_names >>

\* The variables of the text steps (lines 117-132), which the model of the
\* run does not carry: there an article is its link and a title its id.
textVars == << step, article_html, text, article_content, titles, file_names >>

\* What the current extractor call slept and logged.
callLog == << slept, warned, errored >>

\* The variables of the archive under construction.
bookVars == << chapters, bookItems, toc, spine >>
\* The variables of the feed request.
fetchVars == << retriesLeft, fetchAttempts >>
\* The variables of the extractor call.
extractVars == << attempt, tries, fails >>

\* The 'nav' entry of the spine, in the shape of a chapter.
NavEntry == [kind |-> "nav", title |-> 0, category |-> <<>>, img |-> NoPath]
ChapterOf(a, path) ==
    [kind |-> "chapter", title |-> a.link, category |-> a.category, img |-> path]
ImageItem(path) == [kind |-> "image", id |-> path]
ChapterItem(link) == [kind |-> "chapter", id |-> link]

\* No text step is under way.
TextIdle ==
    /\ step = "none"
    /\ article_html = [empty |-> TRUE, paragraphs |-> <<>>]
    /\ text = <<>>
    /\ article_content = <<>>
    /\ titles = <<>>
    /\ file_names = <<>>

\* create_epub is entered.
RunInit ==
    /\ pc = "fetch"
    /\ retriesLeft = RetryTotal
    /\ fetchAttempts = 0
    /\ exc = "none"
    /\ articles = <<>>
    /\ idx = 1
    /\ attempt = 0
    /\ tries = 0
    /\ fails = 0
    /\ article = NoArticle
    /\ imgPath = NoPath
    /\ chapters = <<>>
    /\ bookItems = <<>>
    /\ toc = <<>>
    /\ spine = <<>>
    /\ disk = {}
    /\ status = [i \in 1..Len(feed) |-> "pending"]
    /\ result = "none"
    /\ terminal = "none"
    /\ written = "no"
    /\ slept = <<>>
    /\ warned = 0
    /\ errored = 0
    /\ errorsLogged = 0
    /\ imageCalls = 0

Init ==
    /\ feed \in Feeds
    /\ RunInit
    /\ TextIdle

\* `return False` / `return True` / an exception leaving create_epub.
Return(value, state) ==
    /\ result' = value
    /\ terminal' = state
    /\ pc' = "done"

\* The item under the loop variable (url, cat).
Current == articles[idx]

\* `continue`: the loop moves to the next item.
Continue(st) ==
    /\ status' = [status EXCEPT ![Current.link] = st]
    /\ idx' = idx + 1
    /\ pc' = "loop"

\* ------------------------------------------------------------ feed fetch
\* session.get answers with a status outside status_forcelist and
\* raise_for_status accepts it.
FeedFetchOk ==
    /\ pc = "fetch"
    /\ fetchAttempts' = fetchAttempts + 1
    /\ pc' = "parse"
    /\ UNCHANGED << textVars, feed, retriesLeft, exc, articles, idx, extractVars, article,
                    imgPath, bookVars, disk, status, result, terminal, written,
                    callLog, errorsLogged, imageCalls >>

\* A fetch whose except clause logs the error and forgets to return.
FeedFetchHttpErrorFallsThrough ==
    /\ pc = "fetch"
    /\ fetchAttempts' = fetchAttempts + 1
    /\ exc' = "HTTPError"
    /\ pc' = "parse"
    /\ UNCHANGED << textVars, feed, retriesLeft, articles, idx, extractVars, article,
                    imgPath, bookVars, disk, status, result, terminal, written,
                    callLog, errorsLogged, imageCalls >>

\* The answer is an error status that is not retried (404, 501, ...):
\* raise_for_status raises HTTPError, a RequestException; `return False`.
FeedFetchHttpError ==
    /\ pc = "fetch"
    /\ fetchAttempts' = fetchAttempts + 1
    /\ exc' = "HTTPError"
    /\ Return("False", "FeedUnreachable")
    /\ errorsLogged' = errorsLogged + 1
    /\ UNCHANGED << textVars, feed, retriesLeft, articles, idx, extractVars, article,
                    imgPath, bookVars, disk, status, written,
                    callLog, imageCalls >>

\* The exhaustion test of Retry.increment, with one retry too few allowed.
RetryExhaustedEarly(total) == total <= 0

\* Retry.is_exhausted after increment(): the retry counters that are set,
\* here total, have gone below zero.
RetryExhausted(total) == total < 0

\* The server answers with a status in status_forcelist (cause "status") or
\* the connection fails (cause "connection"), and the Retry object still
\* allows a retry: the adapter sleeps and sends the request again.
FeedFetchRetry ==
    /\ pc = "fetch"
    /\ ~RetryExhausted(retriesLeft - 1)
    /\ fetchAttempts' = fetchAttempts + 1
    /\ retriesLeft' = retriesLeft - 1
    /\ UNCHANGED << textVars, feed, pc, exc, articles, idx, extractVars, article, imgPath,
                    bookVars, disk, status, result, terminal, written,
                    callLog, errorsLogged, imageCalls >>

\* As above with the retries used up: urllib3 raises MaxRetryError, which
\* requests raises as RetryError (status) or ConnectionError (connection),
\* both RequestException: `return False`.
FeedFetchExhausted ==
    /\ pc = "fetch"
    /\ RetryExhausted(retriesLeft - 1)
    /\ fetchAttempts' = fetchAttempts + 1
    /\ retriesLeft' = retriesLeft - 1
    /\ \E e \in { "RetryError", "ConnectionError" } : exc' = e
    /\ Return("False", "FeedUnreachable")
    /\ errorsLogged' = errorsLogged + 1
    /\ UNCHANGED << textVars, feed, articles, idx, extractVars, article, imgPath, bookVars,
                    disk, status, written,
                    callLog, imageCalls >>

\* ------------------------------------------------------- parse and sort
\* Lines 76-90 on a feed whose items all carry <link> and <category>.  The
\* request of line 70 is over: its retry state is dropped.
ParseAndSort ==
    /\ pc = "parse"
    /\ \A i \in 1..Len(feed) : feed[i].hasTags
    /\ articles' = SortArticles(feed)
    /\ retriesLeft' = RetryTotal
    /\ fetchAttempts' = 0
    /\ pc' = "loop"
    /\ UNCHANGED << textVars, feed, exc, idx, extractVars, article, imgPath,
                    bookVars, disk, status, result, terminal, written,
                    callLog, errorsLogged, imageCalls >>

\* Line 78 on a feed with an item lacking a tag: item.find(...) is None and
\* .text raises AttributeError, outside any try.
ParseRaises ==
    /\ pc = "parse"
    /\ \E i \in 1..Len(feed) : ~feed[i].hasTags
    /\ exc' = "AttributeError"
    /\ Return("exception", "Escaped")
    /\ UNCHANGED << textVars, feed, fetchVars, articles, idx, extractVars, article,
                    imgPath, bookVars, disk, status, written,
                    callLog, errorsLogged, imageCalls >>

\* ------------------------------------------------------------ item loop
\* Line 93 with an item left: call download_article_with_retry(url).
BeginItem ==
    /\ pc = "loop"
    /\ idx <= Len(articles)
    /\ attempt' = 0
    /\ tries' = 0
    /\ fails' = 0
    /\ article' = NoArticle
    /\ imgPath' = NoPath
    /\ status' = [status EXCEPT ![Current.link] = "extracting"]
    /\ pc' = "extract"
    /\ slept' = <<>>
    /\ warned' = 0
    /\ errored' = 0
    /\ UNCHANGED << textVars, feed, fetchVars, exc, articles, idx, bookVars, disk, result,
                    terminal, written,
                    errorsLogged, imageCalls >>

\* Line 93 with the list exhausted: fall through to line 171.
EndLoop ==
    /\ pc = "loop"
    /\ idx > Len(articles)
    /\ pc' = "finalize"
    /\ UNCHANGED << textVars, feed, fetchVars, exc, articles, idx, extractVars, article,
                    imgPath, bookVars, disk, status, result, terminal, written,
                    callLog, errorsLogged, imageCalls >>

\* -------------------------------------------- download_article_with_retry
\* Lines 52-55: Article(url), download() and parse() succeed; the article
\* is returned at once.  Its publish_date is whatever the page yields.
ExtractAttemptOk ==
    /\ pc = "extract"
    /\ attempt < max_retries
    /\ tries' = tries + 1
    /\ \E d \in PublishDates :
          article' = [url |-> Current.link, publish_date |-> d]
    /\ pc' = "returned"
    /\ UNCHANGED << textVars, feed, fetchVars, exc, articles, idx, attempt, fails, imgPath,
                    bookVars, disk, status, result, terminal, written,
                    callLog, errorsLogged, imageCalls >>

\* A backoff that doubles the attempt number: 0 s, 2 s, 4 s.
BackoffDoubled(n) == 2 * n

\* Line 62: time.sleep(2 ** attempt).
Backoff(n) == 2 ^ n

\* A last-attempt test that is off by one and so never true in the loop.
LastAttemptOffByOne(n) == n = max_retries

\* Line 57: attempt == max_retries - 1.
LastAttempt(n) == n = max_retries - 1

\* Lines 56-62: the attempt raises.  On the last attempt two error records
\* are logged (the URL, then the error) and None returned; otherwise one
\* warning, the sleep, and the next turn of the loop (line 63 returns None
\* should the loop run out).
ExtractAttemptFails ==
    /\ pc = "extract"
    /\ attempt < max_retries
    /\ tries' = tries + 1
    /\ fails' = fails + 1
    /\ IF LastAttempt(attempt)
       THEN /\ errored' = errored + 2
            /\ errorsLogged' = errorsLogged + 2
            /\ article' = NoArticle
            /\ pc' = "returned"
            /\ UNCHANGED << attempt, warned, slept >>
       ELSE /\ warned' = warned + 1
            /\ slept' = Append(slept, Backoff(attempt))
            /\ attempt' = attempt + 1
            /\ IF attempt + 1 >= max_retries
               THEN article' = NoArticle /\ pc' = "returned"
               ELSE UNCHANGED << article, pc >>
            /\ UNCHANGED << errored, errorsLogged >>
    /\ UNCHANGED << textVars, feed, fetchVars, exc, articles, idx, imgPath, bookVars, disk,
                    status, result, terminal, written,
                    imageCalls >>

\* ----------------------------------------------- lines 96-113 of the loop
\* The caller consumes the extractor's result; the locals of the finished
\* call (attempt, and the counts kept of it) are gone.
\* Lines 96-98: the extractor returned None; warn and continue.
SkipUnextracted ==
    /\ pc = "returned"
    /\ article = NoArticle
    /\ Continue("extractFailed")
    /\ attempt' = 0
    /\ tries' = 0
    /\ fails' = 0
    /\ slept' = <<>>
    /\ warned' = 0
    /\ errored' = 0
    /\ UNCHANGED << textVars, feed, fetchVars, exc, articles, article,
                    imgPath, bookVars, disk, result, terminal, written,
                    errorsLogged, imageCalls >>

\* Lines 100-110: article.publish_date is None, so .date() raises
\* AttributeError in the print that precedes the try of line 115.
MissingDateRaises ==
    /\ pc = "returned"
    /\ article /= NoArticle
    /\ article.publish_date = "None"
    /\ status' = [status EXCEPT ![Current.link] = "noDate"]
    /\ exc' = "AttributeError"
    /\ Return("exception", "Escaped")
    /\ UNCHANGED << textVars, feed, fetchVars, articles, idx, extractVars, article,
                    imgPath, bookVars, disk, written,
                    callLog, errorsLogged, imageCalls >>

\* A date filter that lost its `continue`: the article goes on to the try.
SkipOtherDateFallsThrough ==
    /\ pc = "returned"
    /\ article /= NoArticle
    /\ article.publish_date = "other"
    /\ status' = [status EXCEPT ![Current.link] = "today"]
    /\ pc' = "build"
    /\ attempt' = 0
    /\ tries' = 0
    /\ fails' = 0
    /\ slept' = <<>>
    /\ warned' = 0
    /\ errored' = 0
    /\ UNCHANGED << textVars, feed, fetchVars, exc, articles, idx, article,
                    imgPath, bookVars, disk, result, terminal, written,
                    errorsLogged, imageCalls >>

\* Lines 112-113: published on another day; continue.
SkipOtherDate ==
    /\ pc = "returned"
    /\ article /= NoArticle
    /\ article.publish_date = "other"
    /\ Continue("otherDate")
    /\ attempt' = 0
    /\ tries' = 0
    /\ fails' = 0
    /\ slept' = <<>>
    /\ warned' = 0
    /\ errored' = 0
    /\ UNCHANGED << textVars, feed, fetchVars, exc, articles, article,
                    imgPath, bookVars, disk, result, terminal, written,
                    errorsLogged, imageCalls >>

\* Lines 112-115: published today; enter the try.
PassDateFilter ==
    /\ pc = "returned"
    /\ article /= NoArticle
    /\ article.publish_date = "today"
    /\ status' = [status EXCEPT ![Current.link] = "today"]
    /\ pc' = "build"
    /\ attempt' = 0
    /\ tries' = 0
    /\ fails' = 0
    /\ slept' = <<>>
    /\ warned' = 0
    /\ errored' = 0
    /\ UNCHANGED << textVars, feed, fetchVars, exc, articles, idx, article,
                    imgPath, bookVars, disk, result, terminal, written,
                    errorsLogged, imageCalls >>

\* ----------------------------------------------- lines 115-169 of the loop
\* Lines 117-132: the paragraphs are wrapped and the EpubHtml created.
BuildChapter ==
    /\ pc = "build"
    /\ status' = [status EXCEPT ![Current.link] = "built"]
    /\ pc' = "image"
    /\ UNCHANGED << textVars, feed, fetchVars, exc, articles, idx, extractVars, article,
                    imgPath, bookVars, disk, result, terminal, written,
                    callLog, errorsLogged, imageCalls >>

\* Lines 117-132 raise (the HTML parser, a title that is no string, ...);
\* line 167 catches it, logs an error and continues.
BuildChapterRaises ==
    /\ pc = "build"
    /\ Continue("buildError")
    /\ errorsLogged' = errorsLogged + 1
    /\ UNCHANGED << textVars, feed, fetchVars, exc, articles, extractVars, article, imgPath,
                    bookVars, disk, result, terminal, written,
                    callLog, imageCalls >>

\* download_image, lines 23-31: the image is streamed into <random>.jpeg
\* and the file name returned.
DownloadImageOk ==
    /\ pc = "image"
    /\ \E f \in FileNames :
          /\ disk' = disk \cup { f }
          /\ imgPath' = f
    /\ status' = [status EXCEPT ![Current.link] = "imageOk"]
    /\ pc' = "embed"
    /\ imageCalls' = imageCalls + 1
    /\ UNCHANGED << textVars, feed, fetchVars, exc, articles, idx, extractVars, article,
                    bookVars, result, terminal, written,
                    callLog, errorsLogged >>

\* download_image, lines 23-24 and 32-33: requests.get or raise_for_status
\* raises a RequestException; it is printed and the function returns None.
DownloadImageFails ==
    /\ pc = "image"
    /\ imgPath' = NoPath
    /\ status' = [status EXCEPT ![Current.link] = "imageNone"]
    /\ pc' = "embed"
    /\ imageCalls' = imageCalls + 1
    /\ UNCHANGED << textVars, feed, fetchVars, exc, articles, idx, extractVars, article,
                    bookVars, disk, result, terminal, written,
                    callLog, errorsLogged >>

\* download_image, lines 28-29: the file is open and the copy of the raw
\* stream raises an error that is no RequestException (urllib3's, the
\* file system's); it leaves download_image and is caught at line 167.
DownloadImageRaises ==
    /\ pc = "image"
    /\ \E f \in FileNames : disk' = disk \cup { f }
    /\ Continue("imageRaised")
    /\ imageCalls' = imageCalls + 1
    /\ errorsLogged' = errorsLogged + 1
    /\ UNCHANGED << textVars, feed, fetchVars, exc, articles, extractVars, article, imgPath,
                    bookVars, result, terminal, written,
                    callLog >>

\* Lines 136-165 with a downloaded image: the file is read, the image item
\* and the chapter are added to the book and the chapter is appended.
EmbedChapter ==
    /\ pc = "embed"
    /\ imgPath /= NoPath
    /\ bookItems' = bookItems \o << ImageItem(imgPath), ChapterItem(Current.link) >>
    /\ chapters' = Append(chapters, ChapterOf(Current, imgPath))
    /\ Continue("chapter")
    /\ UNCHANGED << textVars, feed, fetchVars, exc, articles, extractVars, article,
                    imgPath, toc, spine, disk, result, terminal, written,
                    callLog, errorsLogged, imageCalls >>

\* An embedding that skips the image it does not have and keeps the chapter.
EmbedWithoutImage ==
    /\ pc = "embed"
    /\ imgPath = NoPath
    /\ bookItems' = Append(bookItems, ChapterItem(Current.link))
    /\ chapters' = Append(chapters, ChapterOf(Current, imgPath))
    /\ Continue("chapter")
    /\ UNCHANGED << textVars, feed, fetchVars, exc, articles, extractVars, article,
                    imgPath, toc, spine, disk, result, terminal, written,
                    callLog, errorsLogged, imageCalls >>

\* Lines 136-152 with epubtop_image_path None: open(None, 'rb') raises
\* TypeError, caught at line 167; the chapter is dropped.
EmbedRaises ==
    /\ pc = "embed"
    /\ imgPath = NoPath
    /\ Continue("imageNone")
    /\ errorsLogged' = errorsLogged + 1
    /\ UNCHANGED << textVars, feed, fetchVars, exc, articles, extractVars, article, imgPath,
                    bookVars, disk, result, terminal, written,
                    callLog, imageCalls >>

\* ------------------------------------------------- finalise and serialise
\* Lines 171-173: no chapter; log and `return False`.
NoChapters ==
    /\ pc = "finalize"
    /\ chapters = <<>>
    /\ Return("False", "ZeroArticles")
    /\ errorsLogged' = errorsLogged + 1
    /\ UNCHANGED << textVars, feed, fetchVars, exc, articles, idx, extractVars, article,
                    imgPath, bookVars, disk, status, written,
                    callLog, imageCalls >>

\* A finalisation whose spine lacks the 'nav' entry.
AssembleBookSpineWithoutNav ==
    /\ pc = "finalize"
    /\ toc' = << [section |-> "Articles", chapters |-> chapters] >>
    /\ bookItems' = bookItems \o << [kind |-> "ncx", id |-> "ncx"],
                                    [kind |-> "nav", id |-> "nav"],
                                    [kind |-> "style", id |-> "style_nav"] >>
    /\ spine' = chapters
    /\ pc' = "write"
    /\ UNCHANGED << textVars, feed, fetchVars, exc, articles, idx, extractVars, article,
                    imgPath, chapters, disk, status, result, terminal, written,
                    callLog, errorsLogged, imageCalls >>

\* The finalisation of a book, whatever its chapter list holds.
AssembleBook ==
    /\ pc = "finalize"
    /\ toc' = << [section |-> "Articles", chapters |-> chapters] >>
    /\ bookItems' = bookItems \o << [kind |-> "ncx", id |-> "ncx"],
                                    [kind |-> "nav", id |-> "nav"],
                                    [kind |-> "style", id |-> "style_nav"] >>
    /\ spine' = << NavEntry >> \o chapters
    /\ pc' = "write"
    /\ UNCHANGED << textVars, feed, fetchVars, exc, articles, idx, extractVars, article,
                    imgPath, chapters, disk, status, result, terminal, written,
                    callLog, errorsLogged, imageCalls >>

\* A finalisation that lost the `if not chapters` test of line 171.
FinalizeBookUnchecked == AssembleBook

\* Lines 175-210: table of contents, NCX, nav, stylesheet and spine.
FinalizeBook ==
    /\ chapters /= <<>>
    /\ AssembleBook

\* Lines 213-216: write_epub succeeds; `return True`.
WriteOk ==
    /\ pc = "write"
    /\ written' = "written"
    /\ Return("True", "Success")
    /\ UNCHANGED << textVars, feed, fetchVars, exc, articles, idx, extractVars, article,
                    imgPath, bookVars, disk, status,
                    callLog, errorsLogged, imageCalls >>

\* Lines 213-219: write_epub raises; log and `return False`.
WriteRaises ==
    /\ pc = "write"
    /\ written' = "failed"
    /\ exc' = "Exception"
    /\ Return("False", "WriteError")
    /\ errorsLogged' = errorsLogged + 1
    /\ UNCHANGED << textVars, feed, fetchVars, articles, idx, extractVars, article,
                    imgPath, bookVars, disk, status,
                    callLog, imageCalls >>

\* ------------------------------------------------------------- __main__
\* Lines 226-228: create_epub returned; every *.jpeg of the working
\* directory is removed.  (An exception that left create_epub ends the
\* script at line 224.)
SweepScratch ==
    /\ pc = "done"
    /\ result \in { "True", "False" }
    /\ disk' = {}
    /\ pc' = "exit"
    /\ UNCHANGED << textVars, feed, fetchVars, exc, articles, idx, extractVars, article,
                    imgPath, bookVars, status, result, terminal, written,
                    callLog, errorsLogged, imageCalls >>

Next ==
    \/ FeedFetchOk
    \/ FeedFetchHttpError
    \/ FeedFetchRetry
    \/ FeedFetchExhausted
    \/ ParseAndSort
    \/ ParseRaises
    \/ BeginItem
    \/ EndLoop
    \/ ExtractAttemptOk
    \/ ExtractAttemptFails
    \/ SkipUnextracted
    \/ MissingDateRaises
    \/ SkipOtherDate
    \/ PassDateFilter
    \/ BuildChapter
    \/ BuildChapterRaises
    \/ DownloadImageOk
    \/ DownloadImageFails
    \/ DownloadImageRaises
    \/ EmbedChapter
    \/ EmbedRaises
    \/ NoChapters
    \/ FinalizeBook
    \/ WriteOk
    \/ WriteRaises
    \/ SweepScratch

Spec == Init /\ [][Next]_vars

\* The variables of the run, at rest while a text step is taken alone.
runVars ==
    << feed, pc, retriesLeft, fetchAttempts, exc, articles, idx, attempt, tries,
       fails, article, imgPath, chapters, bookItems, toc, spine, disk, status,
       result, terminal, written, slept, warned, errored, errorsLogged,
       imageCalls >>

\* ------------------------------------------- lines 117-124: the normaliser
\* Longest article.text tried.
MaxTextLen == 6

\* The characters of an article text: two letters, the space, the newline.
TextChars == { "a", "b", " ", "\n" }

\* The characters str.strip() removes.
Whitespace == { " ", "\n" }

RECURSIVE StringsUpTo(_, _)
\* All strings over the characters A of length at most n.
StringsUpTo(A, n) ==
    IF n = 0 THEN { <<>> }
    ELSE StringsUpTo(A, n - 1)
         \cup { Append(t, c) : t \in { u \in StringsUpTo(A, n - 1) : Len(u) = n - 1 },
                               c \in A }

\* article.article_html: the empty string, or a document, taken as the
\* texts of its <p> elements in document order.
HtmlBodies ==
    { [empty |-> TRUE, paragraphs |-> <<>>],
      [empty |-> FALSE, paragraphs |-> <<>>],
      [empty |-> FALSE, paragraphs |-> << <<"a">>, <<" ", "b">> >>] }

RECURSIVE SplitFrom(_, _)
\* str.split('\n\n') of the rest s, cur being the segment begun: the
\* separators are found from the left, without overlap.
SplitFrom(s, cur) ==
    IF s = <<>> THEN << cur >>
    ELSE IF Len(s) >= 2 /\ s[1] = "\n" /\ s[2] = "\n"
         THEN << cur >> \o SplitFrom(SubSeq(s, 3, Len(s)), <<>>)
         ELSE SplitFrom(Tail(s), Append(cur, Head(s)))

\* article.text.split('\n\n')
SplitParagraphs(s) == SplitFrom(s, <<>>)

RECURSIVE LStrip(_)
LStrip(s) == IF s /= <<>> /\ Head(s) \in Whitespace THEN LStrip(Tail(s)) ELSE s

RECURSIVE RStrip(_)
RStrip(s) ==
    IF s /= <<>> /\ s[Len(s)] \in Whitespace
    THEN RStrip(SubSeq(s, 1, Len(s) - 1))
    ELSE s

\* p.strip()
Strip(s) == RStrip(LStrip(s))

\* f'<p>{...}</p>': the tags are single tokens of the content.
Paragraph(s) == << "<p>" >> \o s \o << "</p>" >>

RECURSIVE JoinLines(_)
\* '\n'.join(...)
JoinLines(ps) ==
    IF ps = <<>> THEN <<>>
    ELSE IF Len(ps) = 1 THEN ps[1]
    ELSE ps[1] \o << "\n" >> \o JoinLines(Tail(ps))

RECURSIVE MapStripped(_)
\* [f'<p>{p.strip()}</p>' for p in paragraphs if p.strip()]
MapStripped(ps) ==
    IF ps = <<>> THEN <<>>
    ELSE IF Strip(Head(ps)) /= <<>>
         THEN << Paragraph(Strip(Head(ps))) >> \o MapStripped(Tail(ps))
         ELSE MapStripped(Tail(ps))

\* Lines 123-124 without the `if p.strip()` of the comprehension.
NormalizeTextKeepsEmpty(t) ==
    JoinLines([k \in 1..Len(SplitParagraphs(t)) |-> Paragraph(Strip(SplitParagraphs(t)[k]))])

\* Lines 123-124: the plain-text fallback.
NormalizeText(t) == JoinLines(MapStripped(SplitParagraphs(t)))

\* Lines 119-121: each <p> of the document, its text as it stands.
NormalizeHtml(h) ==
    JoinLines([k \in 1..Len(h.paragraphs) |-> Paragraph(h.paragraphs[k])])

\* An article with text and, possibly, body HTML reaches line 117.
NormalizerInit ==
    /\ feed = <<>>
    /\ RunInit
    /\ step = "normalize"
    /\ article_html \in HtmlBodies
    /\ text \in StringsUpTo(TextChars, MaxTextLen)
    /\ article_content = <<>>
    /\ titles = <<>>
    /\ file_names = <<>>

\* Lines 118-121: article_html is not empty.
NormalizeFromHtml ==
    /\ step = "normalize"
    /\ ~article_html.empty
    /\ article_content' = NormalizeHtml(article_html)
    /\ step' = "normalized"
    /\ UNCHANGED << runVars, article_html, text, titles, file_names >>

\* Lines 118, 122-124: article_html is empty.
NormalizeFromText ==
    /\ step = "normalize"
    /\ article_html.empty
    /\ article_content' = NormalizeText(text)
    /\ step' = "normalized"
    /\ UNCHANGED << runVars, article_html, text, titles, file_names >>

NormalizerNext ==
    \/ NormalizeFromHtml
    \/ NormalizeFromText

NormalizerSpec == NormalizerInit /\ [][NormalizerNext]_vars

\* ------------------------------- lines 127-132, 164-165: the chapter file
\* Longest ending of a title tried.
MaxTail == 2

\* [:30] of line 127.
NameLimit == 30

\* The characters of a title: two letters, the space, the slash, the
\* underscore.
TitleChars == { "a", "b", " ", "/", "_" }

\* n times the letter a.
Letters(n) == [i \in 1..n |-> "a"]

\* The characters tried after the run of letters.
TailChars == { "b", " ", "/" }

RECURSIVE Replace(_, _, _)
\* str.replace(old, new) for single characters.
Replace(s, old, new) ==
    IF s = <<>> THEN <<>>
    ELSE << IF Head(s) = old THEN new ELSE Head(s) >> \o Replace(Tail(s), old, new)

\* s[:n]
Prefix(s, n) == SubSeq(s, 1, IF Len(s) < n THEN Len(s) ELSE n)

\* A chapter name that replaces the spaces only.
ChapterNameKeepsSlash(title) == Prefix(Replace(title, " ", "_"), NameLimit)

\* Line 127: article.title.replace(' ', '_').replace('/', '_')[:30]
ChapterName(title) == Prefix(Replace(Replace(title, " ", "_"), "/", "_"), NameLimit)

\* Line 130: f'{chapter_name}.xhtml'; the extension is one token.
FileName(title) == ChapterName(title) \o << ".xhtml" >>

\* Two articles reach line 127 one after the other; the title of the
\* second shares a first character and a run of letters with the first's
\* and ends as it does or otherwise.
ChapterFileInit ==
    /\ feed = <<>>
    /\ RunInit
    /\ step = "name"
    /\ article_html = [empty |-> TRUE, paragraphs |-> <<>>]
    /\ text = <<>>
    /\ article_content = <<>>
    /\ \E h \in StringsUpTo(TitleChars, 1), n \in { 0 } \cup (NameLimit - 3)..NameLimit :
          \E t1, t2 \in StringsUpTo(TailChars, MaxTail) :
              titles = << h \o Letters(n) \o t1, h \o Letters(n) \o t2 >>
    /\ file_names = <<>>

\* Lines 127-132 and 164-165 for the next article: the chapter is created
\* under its file name, added to the book and appended.
NameChapter ==
    /\ step = "name"
    /\ Len(file_names) < Len(titles)
    /\ file_names' = Append(file_names, FileName(titles[Len(file_names) + 1]))
    /\ UNCHANGED << runVars, step, article_html, text, article_content, titles >>

\* Both articles are done.
NamesDone ==
    /\ step = "name"
    /\ Len(file_names) = Len(titles)
    /\ step' = "named"
    /\ UNCHANGED << runVars, article_html, text, article_content, titles, file_names >>

ChapterFileNext ==
    \/ NameChapter
    \/ NamesDone

ChapterFileSpec == ChapterFileInit /\ [][ChapterFileNext]_vars

\* ------------------------------------------------------- state predicates
\* The run is over: create_epub returned or raised.
Done == pc \in { "done", "exit" }

\* Position of feed item i in the sorted list (0 before the sort).
Pos(i) ==
    IF \E k \in 1..Len(articles) : articles[k].link = i
    THEN CHOOSE k \in 1..Len(articles) : articles[k].link = i
    ELSE 0

\* The loop is past feed item i.
Finished(i) == Pos(i) > 0 /\ (Pos(i) < idx \/ Done)

\* Feed item i has a chapter in the chapter list.
HasChapter(i) == \E k \in 1..Len(chapters) : chapters[k].title = i

\* The feed was fetched, parsed and sorted.
Sorted == pc \notin { "fetch", "parse" } /\ terminal /= "FeedUnreachable"
          /\ Len(articles) = Len(feed)

\* The per-item failures: what went wrong with an item the loop is past.
ItemFailures == { "extractFailed", "noDate", "buildError", "imageNone", "imageRaised" }

\* --------------------------------------------------------------- claims
\* C1: whatever fails while an item is processed (extraction, a missing
\* publish date, normalisation, the image, the chapter build), the failure
\* is caught at the item boundary: no exception leaves create_epub and the
\* loop goes on to the items after it, so that a finished run has taken up
\* every item of the list.
C1_ItemFailureIsolated ==
    \A i \in DOMAIN status :
        (status[i] \in ItemFailures /\ Done) =>
            /\ result /= "exception"
            /\ \A j \in DOMAIN status : status[j] /= "pending"

\* C2: when download_image returns None for an article that was extracted
\* and passed the date filter, its chapter is still built and appended.
C2_ImageFailureKeepsChapter ==
    \A i \in DOMAIN status :
        (status[i] = "imageNone" /\ Finished(i)) => HasChapter(i)

\* C3: every run ends in one of the four terminal states, told by the
\* boolean it returns (True exactly for Success, the archive written with
\* at least one chapter), and no exception leaves create_epub.
C3_FourTerminalStates ==
    Done =>
        /\ result \in { "True", "False" }
        /\ terminal \in { "Success", "FeedUnreachable", "ZeroArticles", "WriteError" }
        /\ (result = "True") = (terminal = "Success")
        /\ terminal = "Success" => (written = "written" /\ Len(chapters) >= 1)

\* C4: an article whose extraction failed on every attempt is no chapter,
\* and the run still returns True when another article was processed into
\* a chapter (read with the write of the archive not failing, which the
\* specification lists as a failure of its own).
C4_ExtractionFailureSkippedRunSucceeds ==
    \A i \in DOMAIN status :
        (status[i] = "extractFailed" /\ Done) =>
            /\ ~HasChapter(i)
            /\ ((\E j \in DOMAIN status : j /= i /\ status[j] = "chapter")
                  /\ written /= "failed") => result = "True"

\* The exceptions that end the feed fetch.
FetchErrors == { "HTTPError", "RetryError", "ConnectionError" }

\* C5: when the feed fetch fails (the retries are used up, or the answer is
\* an error status), create_epub returns False; no article was processed,
\* no image downloaded, nothing added to a book and write_epub never called.
C5_FeedFailureWritesNothing ==
    (exc \in FetchErrors \/ terminal = "FeedUnreachable") =>
        /\ Done
        /\ result = "False"
        /\ terminal = "FeedUnreachable"
        /\ exc \in FetchErrors
        /\ articles = <<>>
        /\ \A i \in DOMAIN status : status[i] = "pending"
        /\ tries = 0
        /\ disk = {}
        /\ chapters = <<>>
        /\ bookItems = <<>>
        /\ written = "no"

\* A feed of two items whose fetch used up its retries.
C5_Witness ==
    /\ pc = "done"
    /\ terminal = "FeedUnreachable"
    /\ exc = "RetryError"
    /\ Len(feed) = 2
    /\ result = "False"

\* C6: a run that got through the item loop with no chapter returns False
\* without calling write_epub (so when every item fails the date filter);
\* write_epub is called only with a chapter list that is not empty.
C6_ZeroChaptersNeverWritten ==
    /\ (pc = "write" \/ written /= "no") => chapters /= <<>>
    /\ (Done /\ terminal \notin { "FeedUnreachable", "Escaped" } /\ chapters = <<>>) =>
          /\ result = "False"
          /\ terminal = "ZeroArticles"
          /\ written = "no"
    /\ (Done /\ Sorted /\ \A i \in DOMAIN status : status[i] = "otherDate") =>
          /\ result = "False"
          /\ terminal = "ZeroArticles"
          /\ written = "no"

\* Two items, both published on another day: the zero-chapter failure.
C6_Witness ==
    /\ pc = "done"
    /\ Len(feed) = 2
    /\ \A i \in DOMAIN status : status[i] = "otherDate"
    /\ terminal = "ZeroArticles"

\* C7: the items are processed in category-descending order, equal
\* categories in feed order, and the chapters (table of contents and spine
\* too) stand in the order of the processed items of that sorted list.
C7_ChaptersInSortedOrder ==
    Sorted =>
        /\ \A i \in 1..Len(feed) : \E k \in 1..Len(articles) : articles[k] = feed[i]
        /\ \A j, k \in 1..Len(articles) :
              j < k =>
                 /\ ~StrLess(articles[j].category, articles[k].category)
                 /\ articles[j].category = articles[k].category
                       => articles[j].link < articles[k].link
        /\ \A k \in 1..Len(articles) :
              (status[articles[k].link] /= "pending") = (k < idx \/ (k = idx /\ pc /= "loop"))
        /\ \A a, b \in 1..Len(chapters) :
              a < b => Pos(chapters[a].title) < Pos(chapters[b].title)
        /\ \A i \in DOMAIN status : (status[i] = "chapter") = HasChapter(i)
        /\ toc /= <<>> => toc = << [section |-> "Articles", chapters |-> chapters] >>
        /\ spine /= <<>> => spine = << NavEntry >> \o chapters
        /\ pc \in { "write", "done", "exit" } /\ chapters /= <<>> /\ result /= "exception"
              => (toc /= <<>> /\ spine /= <<>>)

\* A feed in the order 1, 2, 2 of categories, all three made chapters: the
\* archive holds them as items 2, 3, 1.
C7_Witness ==
    /\ terminal = "Success"
    /\ Len(feed) >= 3
    /\ feed[1].category = <<1>>
    /\ feed[2].category = <<2>>
    /\ feed[3].category = <<2>>
    /\ Len(chapters) >= 3
    /\ chapters[1].title = 2 /\ chapters[2].title = 3 /\ chapters[3].title = 1
    /\ spine[2].title = 2 /\ spine[3].title = 3 /\ spine[4].title = 1

C9_ExtractorThreeAttempts ==
    /\ tries <= 3
    /\ fails <= tries
    /\ pc = "extract" => (fails = tries /\ tries < 3)
    /\ pc = "returned" =>
          /\ (article = NoArticle) = (fails = 3)
          /\ article = NoArticle => tries = 3
          /\ article /= NoArticle => (tries = fails + 1 /\ article.url = Current.link)

\* The extractor returned an article at its third attempt.
C9_Witness ==
    /\ pc = "returned"
    /\ article /= NoArticle
    /\ tries = 3
    /\ fails = 2

\* C10 as stated: against a server that keeps answering with a retried
\* status, or a connection that keeps failing, the feed fetch has made at
\* most 5 attempts in total when it raises its terminal network error.
C10_AtMostFiveAttempts ==
    exc \in { "RetryError", "ConnectionError" } => fetchAttempts <= 5

\* C10, amended: Retry(total=5) allows 5 retries after the first request,
\* so a server that keeps failing is asked 6 times in total; then a
\* terminal network error (RetryError or ConnectionError) is raised, which
\* create_epub answers with `return False`.
C10_SixAttemptsThenFatal ==
    /\ fetchAttempts <= 6
    /\ exc \in { "RetryError", "ConnectionError" } =>
          /\ fetchAttempts = 6
          /\ retriesLeft = -1
          /\ result = "False"
          /\ terminal = "FeedUnreachable"
    /\ (pc = "fetch" /\ fetchAttempts > 0) => fetchAttempts = RetryTotal - retriesLeft

\* The sixth request failed and the run ended with the feed unreachable.
C10_Witness ==
    /\ fetchAttempts = 6
    /\ exc = "ConnectionError"
    /\ terminal = "FeedUnreachable"
    /\ result = "False"

\* C13 as stated: the delays of the extractor are 0 s, 2 s, 4 s, one after
\* each failed attempt, the first retry being made with zero delay.
C13_DelaysZeroTwoFour ==
    /\ Len(slept) = fails
    /\ \A k \in 1..Len(slept) : slept[k] = 2 * (k - 1)

\* C13, amended: the wait after failed attempt number attempt (0-based) is
\* 2^attempt seconds and follows the first and the second failed attempt
\* only, so the delays are 1 s, 2 s: the first retry is made after one
\* second, and no wait follows the third, last attempt.
C13_DelaysOneTwo ==
    /\ \A k \in 1..Len(slept) : slept[k] = 2 ^ (k - 1)
    /\ slept \in { <<>>, <<1>>, <<1, 2>> }
    /\ pc \in { "extract", "returned" } =>
          Len(slept) = (IF fails = 3 THEN 2 ELSE fails)

\* The extractor gave up after three failed attempts and two sleeps.
C13_Witness ==
    /\ pc = "returned"
    /\ article = NoArticle
    /\ fails = 3
    /\ slept = <<1, 2>>

\* C14 as stated: k failed attempts log k warnings, one per failed attempt,
\* and the exhaustion of the attempts logs exactly one error.
C14_OneWarningPerFailure ==
    pc \in { "extract", "returned" } =>
        /\ warned = fails
        /\ errored = (IF pc = "returned" /\ article = NoArticle THEN 1 ELSE 0)

\* C14, amended: a failed attempt that is followed by a retry logs exactly
\* one warning, the last failed attempt logs none (k warnings for k < 3
\* failed attempts, 2 for k = 3), and the exhaustion of the attempts logs
\* exactly two error records (the URL, then the error).
C14_WarningPerRetryTwoErrors ==
    pc \in { "extract", "returned" } =>
        /\ warned = (IF fails = 3 THEN 2 ELSE fails)
        /\ errored = (IF fails = 3 THEN 2 ELSE 0)
        /\ (errored > 0) = (pc = "returned" /\ article = NoArticle)

\* The third attempt failed: two warnings and two error records.
C14_Witness ==
    /\ pc = "returned"
    /\ article = NoArticle
    /\ fails = 3
    /\ warned = 2
    /\ errored = 2

\* C15: an extracted article published on another day is skipped: the step
\* that takes it goes to the next item, logs no error, calls download_image
\* not at all and leaves the chapter list, the book's items, its table of
\* contents and spine and the scratch files as they were; such an article
\* is never a chapter.
C15_DateSkipSilent ==
    [][ /\ (pc = "returned" /\ article /= NoArticle /\ article.publish_date = "other") =>
            /\ pc' = "loop"
            /\ idx' = idx + 1
            /\ status' = [status EXCEPT ![Current.link] = "otherDate"]
            /\ UNCHANGED << chapters, bookItems, toc, spine, disk, errorsLogged,
                            imageCalls >>
        /\ \A i \in DOMAIN status :
              status[i] = "otherDate" =>
                 /\ status'[i] = "otherDate"
                 /\ \A k \in 1..Len(chapters') : chapters'[k].title /= i
      ]_vars

\* A chapter was made and a later article of another day skipped.
C15_Witness ==
    /\ pc = "loop"
    /\ Len(chapters) = 1
    /\ idx = 3
    /\ status[articles[2].link] = "otherDate"
    /\ errorsLogged = 0
    /\ imageCalls = 1

\* C16: when the archive is serialised, its table of contents is the
\* chapter list under the one section 'Articles', its spine the 'nav'
\* entry followed by the same chapters in the same order, and every
\* chapter of both has been added to the book's items (as have the NCX,
\* the nav and the stylesheet).
C16_FinalisedArchive ==
    (pc = "write" \/ written /= "no") =>
        /\ Len(toc) = 1
        /\ toc[1].section = "Articles"
        /\ toc[1].chapters = chapters
        /\ Len(spine) = Len(chapters) + 1
        /\ spine[1] = NavEntry
        /\ \A k \in 1..Len(chapters) : spine[k + 1] = chapters[k]
        /\ \A k \in 1..Len(chapters) :
              \E n \in 1..Len(bookItems) : bookItems[n] = ChapterItem(chapters[k].title)
        /\ \A kind \in { "ncx", "nav", "style" } :
              \E n \in 1..Len(bookItems) : bookItems[n].kind = kind

\* An archive of two chapters was written.
C16_Witness ==
    /\ written = "written"
    /\ Len(chapters) = 2
    /\ Len(spine) = 3
    /\ Len(bookItems) = 7

\* C17: every scratch file that download_image handed to create_epub is
\* embedded (its image item is in the book with the chapter that shows it),
\* and once the program has stopped, whatever the outcome of the run, no
\* scratch file is left in the working directory.
C17_ScratchFilesEmbeddedAndSwept ==
    /\ \A k \in 1..Len(chapters) :
          \E n \in 1..Len(bookItems) : bookItems[n] = ImageItem(chapters[k].img)
    /\ (pc /= "embed" /\ imgPath /= NoPath) =>
          \E n \in 1..Len(bookItems) : bookItems[n] = ImageItem(imgPath)
    /\ (~ENABLED Next) => disk = {}

\* C18: at every item boundary the book holds as many image items as the
\* chapter list has chapters; each chapter follows, in the book's items,
\* the image item of the file its markup names, a file that download_image
\* wrote, so no chapter names an image that was not captured.
C18_ImageForEveryChapter ==
    /\ Len(bookItems) >= 2 * Len(chapters)
    /\ \A k \in 1..Len(chapters) :
          /\ chapters[k].img /= NoPath
          /\ bookItems[2 * k - 1] = ImageItem(chapters[k].img)
          /\ bookItems[2 * k] = ChapterItem(chapters[k].title)
          /\ pc /= "exit" => chapters[k].img \in disk
    /\ pc \in { "loop", "extract", "returned", "build", "image", "embed", "finalize" } =>
          /\ Len(bookItems) = 2 * Len(chapters)
          /\ Cardinality({ n \in 1..Len(bookItems) : bookItems[n].kind = "image" })
                = Len(chapters)
    /\ imageCalls >= Len(chapters)

\* Two chapters with their images, and an article dropped for want of one.
C18_Witness ==
    /\ pc = "loop"
    /\ Len(chapters) = 2
    /\ Len(bookItems) = 4
    /\ \E i \in DOMAIN status : status[i] = "imageNone"
    /\ imageCalls = 3

\* The positions of t that hold no whitespace.
NonWs(t) == { i \in 1..Len(t) : t[i] \notin Whitespace }

\* Positions i < j of t with no character but whitespace between them.
Adjacent(t, i, j) == i < j /\ \A n \in (i + 1)..(j - 1) : t[n] \in Whitespace

\* A blank-line boundary, two newlines in a row, lies between i and j.
BlankBetween(t, i, j) == \E m \in (i + 1)..(j - 2) : t[m] = "\n" /\ t[m + 1] = "\n"

\* Where the segments of t begin and end: at its first and last character
\* that is no whitespace, and on either side of a blank-line boundary.
SegmentStarts(t) ==
    { i \in NonWs(t) : \A j \in NonWs(t) : Adjacent(t, j, i) => BlankBetween(t, j, i) }
SegmentEnds(t) ==
    { i \in NonWs(t) : \A j \in NonWs(t) : Adjacent(t, i, j) => BlankBetween(t, i, j) }

\* The k-th smallest member of the set S of numbers.
KthOf(S, k) == CHOOSE x \in S : Cardinality({ y \in S : y < x }) = k - 1

\* The k-th non-empty trimmed segment of t.
Segment(t, k) == SubSeq(t, KthOf(SegmentStarts(t), k), KthOf(SegmentEnds(t), k))

RECURSIVE ParagraphElements(_, _)
\* The paragraph elements of the first n segments of t, one to a line.
ParagraphElements(t, n) ==
    IF n = 0 THEN <<>>
    ELSE (IF n = 1 THEN <<>> ELSE ParagraphElements(t, n - 1) \o << "\n" >>)
         \o << "<p>" >> \o Segment(t, n) \o << "</p>" >>

\* C11: for an article without body HTML the chapter body is the sequence
\* of paragraph elements of the non-empty trimmed segments that the
\* blank-line boundaries cut the text into, one element per segment, in the
\* order of the text, and no element is empty.
C11_PlainTextParagraphs ==
    (step = "normalized" /\ article_html.empty) =>
        /\ article_content = ParagraphElements(text, Cardinality(SegmentStarts(text)))
        /\ Cardinality({ i \in 1..Len(article_content) : article_content[i] = "<p>" })
              = Cardinality(SegmentStarts(text))
        /\ \A i \in 1..Len(article_content) :
              /\ article_content[i] = "<p>" =>
                    article_content[i + 1] \notin Whitespace \cup { "</p>" }
              /\ article_content[i] = "</p>" =>
                    article_content[i - 1] \notin Whitespace \cup { "<p>" }

\* The text "a\n\n b" became <p>a</p> and <p>b</p>.
C11_Witness ==
    /\ step = "normalized"
    /\ article_html.empty
    /\ text = << "a", "\n", "\n", " ", "b" >>
    /\ article_content = << "<p>", "a", "</p>", "\n", "<p>", "b", "</p>" >>

\* C19: the file name of a chapter is the title, every space and every
\* '/' of it an underscore, cut to its first 30 characters, followed by
\* '.xhtml'; it holds no '/'; and two articles get a chapter each, whether
\* or not their file names are the same.
C19_ChapterFileName ==
    /\ \A k \in 1..Len(file_names) :
          LET t == titles[k]
              f == file_names[k]
              n == IF Len(t) <= 30 THEN Len(t) ELSE 30
          IN /\ Len(f) = n + 1
             /\ f[n + 1] = ".xhtml"
             /\ \A i \in 1..n : f[i] = (IF t[i] \in { " ", "/" } THEN "_" ELSE t[i])
             /\ \A i \in 1..Len(f) : f[i] /= "/"
    /\ step = "named" => Len(file_names) = Len(titles)

\* Two titles of more than 30 characters that differ after the 30th, with
\* a '/' among the first 30: two chapters under one file name.
C19_Witness ==
    /\ step = "named"
    /\ Len(file_names) = 2
    /\ titles[1] /= titles[2]
    /\ Len(titles[1]) > 30
    /\ titles[1][1] = "/"
    /\ file_names[1] = file_names[2]
    /\ file_names[1][1] = "_"

====
